---- MODULE Spec2Model ----
(***************************************************************************)
(* A model of the MQTT topic router of src/main.rs: the route table        *)
(* (MqttRouter), the echo handler (HelloHandler), and main's poll loop,    *)
(* which spawns one tokio task ("dispatch unit") per inbound publish.      *)
(*                                                                         *)
(* Topic strings are modelled as the sequence of their '/'-separated       *)
(* levels ("hello/world" is <<"hello", "world">>), so that string equality *)
(* is distinguishable from prefix or wildcard matching.                    *)
(*                                                                         *)
(* The rumqttc connection is the environment: the events poll() returns    *)
(* and the Result of publish/subscribe are chosen nondeterministically.    *)
(* The client's request channel (capacity 10) is drained only by poll().   *)
(***************************************************************************)
EXTENDS Naturals, Sequences, FiniteSets

\* ---------------------------------------------------------------- bounds
\* Number of connection events the broker side delivers in one run.
MaxEvents == 3
\* Number of add_route calls the router harness makes (SpecRouter).
MaxRegs == 3
\* Number of direct handle_request calls the router harness makes (SpecRouter).
MaxCalls == 2

\* Number of add_route calls a setup phase makes before the loop (SpecSetup);
\* it exceeds the capacity of the request channel.
MaxSetup == 11

\* Number of dispatch units publishing at the same time (SpecBurst); it
\* exceeds the capacity of the request channel.
MaxBurst == 11

\* Number of levels of the topic strings handle and handle_request are
\* compared on (SpecHandle).
MaxLevels == 3

\* ------------------------------------------------------------- constants
\* AsyncClient::new(mqttoptions, 10): capacity of the client's request channel.
ReqCap == 10

\* Topic strings, as sequences of levels.
HelloWorld == <<"hello", "world">>
HelloBack == <<"hello", "back">>
HelloOnly == <<"hello">>
HelloWild == <<"hello", "#">>
UnknownTopic == <<"unknown", "topic">>

\* Topics of the inbound publishes the broker delivers to main, and of the
\* direct handle_request calls of the router harness.
Topics == {HelloWorld, UnknownTopic}

HarnessTopics == {HelloWorld, HelloOnly, UnknownTopic}
\* Payloads of inbound publishes (the router never reads them).
Payloads == {"", "ping"}

\* Handler types implementing MqttHandler.  HelloHandler is the one in the
\* source; the others are handler types of the same shape used to drive
\* add_route with several routes (a second type answering the same topic, one
\* whose path is a wildcard filter, one whose path is a prefix).
HandlerTypes == {"HelloHandler", "HelloHandler2", "WildHandler", "RootHandler"}

\* <T as MqttHandler>::path()
path(h) ==
  CASE h = "HelloHandler" -> HelloWorld
    [] h = "HelloHandler2" -> HelloWorld
    [] h = "WildHandler" -> HelloWild
    [] OTHER -> HelloOnly

VARIABLES
  routes,    \* MqttRouter.routes: IndexMap, a sequence of [key, value] in insertion order
  regs,      \* history: the handler types passed to add_route, in call order
  pc,        \* main's position: "setup", "subscribing", "polling", "terminated", "panicked"
  runtime,   \* the tokio runtime: "running" or "shutdown" (main has returned or panicked)
  queue,     \* connection events delivered by the broker side and not yet polled
  delivered, \* history: the events the connection has delivered, in order
  pulled,    \* history: the events eventloop.poll() has returned, in order
  units,     \* the spawned dispatch units (tokio tasks), in spawn order
  requests,  \* the client's request channel (bounded, capacity ReqCap)
  drained,   \* number of requests the event loop has taken off the channel
  subscribed, \* history: the client.subscribe calls, in call order
  handled    \* the calls of the free function handle(topic, client), in call order

vars == <<routes, regs, pc, runtime, queue, delivered, pulled, units, requests, drained, subscribed, handled>>

\* ------------------------------------------------------- IndexMap helpers
HasKey(r, k) == \E i \in 1..Len(r) : r[i].key = k

IndexOf(r, k) == CHOOSE i \in 1..Len(r) : r[i].key = k

\* Mutant of Insert: a Vec-like push that keeps the old entry of the key.
Insert_push(r, k, v) == Append(r, [key |-> k, value |-> v])

\* Mutant of Insert: the new entry goes first instead of last.
Insert_front(r, k, v) ==
  IF HasKey(r, k)
    THEN [r EXCEPT ![IndexOf(r, k)].value = v]
    ELSE <<[key |-> k, value |-> v]>> \o r

\* IndexMap::insert: replace the value in place when the key is present,
\* append a new entry otherwise.
Insert(r, k, v) ==
  IF HasKey(r, k)
    THEN [r EXCEPT ![IndexOf(r, k)].value = v]
    ELSE Append(r, [key |-> k, value |-> v])

\* An MQTT topic filter f matches topic t: equal, or f ends in the
\* multi-level wildcard "#" and agrees with t on the levels before it.
FilterMatches(f, t) ==
  \/ f = t
  \/ /\ Len(f) > 0
     /\ f[Len(f)] = "#"
     /\ Len(t) >= Len(f) - 1
     /\ \A n \in 1..(Len(f) - 1) : f[n] = t[n]

\* Mutant of Get: keys are matched as MQTT topic filters.
Get_wildcard(r, k) ==
  IF \E i \in 1..Len(r) : FilterMatches(r[i].key, k)
    THEN r[CHOOSE i \in 1..Len(r) : FilterMatches(r[i].key, k)].value
    ELSE "None"

\* IndexMap::get(&path): the value stored under the key equal to path, or None.
Get(r, k) ==
  IF HasKey(r, k) THEN r[IndexOf(r, k)].value ELSE "None"

\* AsyncClient::clone(): a new handle to the same session (request channel).
MainClient == [session |-> "mqtt-async-connector", handle |-> 0]

Clone(c, n) == [c EXCEPT !.handle = n]

\* ------------------------------------------------------------------ Init
Init ==
  /\ routes = <<>>
  /\ regs = <<>>
  /\ pc = "setup"
  /\ runtime = "running"
  /\ queue = <<>>
  /\ delivered = <<>>
  /\ pulled = <<>>
  /\ units = <<>>
  /\ requests = <<>>
  /\ drained = 0
  /\ subscribed = <<>>
  /\ handled = <<>>

\* The EventLoop (the receiving end of the request channel) lives in main's
\* frame: it is dropped when main returns or unwinds.
EventLoopAlive == pc \notin {"terminated", "panicked"}

InFlight(u) == u.pc \in {"spawned", "publishing"}

\* ---------------------------------------------------------- registration
\* HelloHandler::subscribe: the arguments of its client.subscribe call.
subscribe(h) == [op |-> "subscribe", topic |-> path(h), qos |-> "AtMostOnce"]

\* Mutant of AddRoute: a route that is already present is overwritten
\* without subscribing again.
AddRoute_skipExisting(h) ==
  /\ pc = "setup"
  /\ routes' = Insert(routes, path(h), h)
  /\ regs' = Append(regs, h)
  /\ subscribed' = IF HasKey(routes, path(h)) THEN subscribed
                                              ELSE Append(subscribed, subscribe(h))
  /\ pc' = IF HasKey(routes, path(h)) THEN "setup" ELSE "subscribing"
  /\ UNCHANGED <<runtime, queue, delivered, pulled, units, requests, drained, handled>>

\* MqttRouter::add_route up to the await: insert the route, then call
\* T::subscribe(client), which calls client.subscribe(path, AtMostOnce).
AddRoute(h) ==
  /\ pc = "setup"
  /\ routes' = Insert(routes, path(h), h)
  /\ regs' = Append(regs, h)
  /\ subscribed' = Append(subscribed, subscribe(h))
  /\ pc' = "subscribing"
  /\ UNCHANGED <<runtime, queue, delivered, pulled, units, requests, drained, handled>>

\* client.subscribe(..).await returned Ok: the request is in the channel
\* (the send waits while the channel is full); add_route returns.
SubscribeOk ==
  /\ pc = "subscribing"
  /\ Len(requests) < ReqCap
  /\ requests' = Append(requests, [op |-> "subscribe", topic |-> path(regs[Len(regs)])])
  /\ pc' = "setup"
  /\ UNCHANGED <<routes, regs, runtime, queue, delivered, pulled, units, drained, subscribed, handled>>

\* client.subscribe(..).await returned Err: HelloHandler::subscribe unwraps
\* it, and the panic unwinds through add_route into main.
SubscribeErr ==
  /\ pc = "subscribing"
  /\ pc' = "panicked"
  /\ UNCHANGED <<routes, regs, runtime, queue, delivered, pulled, units, requests, drained, subscribed, handled>>

\* --------------------------------------------------------- the poll loop
\* main, after the registrations: let router = Arc::new(router); loop { .. }
EnterLoop ==
  /\ pc = "setup"
  /\ regs = <<"HelloHandler">>
  /\ pc' = "polling"
  /\ UNCHANGED <<routes, regs, runtime, queue, delivered, pulled, units, requests, drained, subscribed, handled>>

\* main's single registration: router.add_route(&mut client, HelloHandler).
MainAddRoute ==
  /\ regs = <<>>
  /\ AddRoute("HelloHandler")

\* The connection events the environment can produce.
PublishEvents == {[kind |-> "Publish", topic |-> t, payload |-> p] : t \in Topics, p \in Payloads}

OtherEvent == [kind |-> "Other", topic |-> <<>>, payload |-> ""]

ErrorEvent == [kind |-> "Error", topic |-> <<>>, payload |-> ""]

Events == PublishEvents \cup {OtherEvent, ErrorEvent}

\* The broker side makes one more event available to the next poll() (the
\* connection is made by the first poll, and nothing reads it after the loop).
Deliver(e) ==
  /\ pc = "polling"
  /\ Len(delivered) < MaxEvents
  /\ queue' = Append(queue, e)
  /\ delivered' = Append(delivered, e)
  /\ UNCHANGED <<routes, regs, pc, runtime, pulled, units, requests, drained, subscribed, handled>>

\* tokio::spawn(async move { router_arc.handle_request(new_client, topic).await })
\* with new_client = client.clone() and topic = String::from(&pub_event.topic).
Spawn(us, e) ==
  Append(us, [topic |-> e.topic, client |-> Clone(MainClient, Len(us) + 1),
              pc |-> "spawned", handler |-> "None", notice |-> FALSE,
              published |-> <<>>])

\* Mutant of Dispatched: an admission limit; a message that arrives while
\* two units are in flight is not dispatched.
Dispatched_capped(us, e) ==
  IF e.kind = "Publish" /\ Cardinality({i \in 1..Len(us) : InFlight(us[i])}) < 2
    THEN Spawn(us, e)
    ELSE us

\* Mutant of Dispatched: the "if let Incoming(Publish)" test is missing, so
\* every successfully polled event spawns a unit.
Dispatched_all(us, e) ==
  IF e.kind # "Error" THEN Spawn(us, e) ELSE us

\* The units after the loop has matched event e.
Dispatched(us, e) ==
  IF e.kind = "Publish" THEN Spawn(us, e) ELSE us

\* Mutant of AfterEvent: the Err arm only prints and the loop goes on.
AfterEvent_continue(e) == "polling"

\* main's position after the loop has matched event e: Err(e) => return Ok(()).
AfterEvent(e) ==
  IF e.kind = "Error" THEN "terminated" ELSE "polling"

\* Mutant of PollIncoming: the loop awaits handle_request instead of
\* spawning it, so it polls again only when no unit is in flight.
PollIncoming_awaits ==
  /\ pc = "polling"
  /\ queue # <<>>
  /\ \A i \in 1..Len(units) : ~InFlight(units[i])
  /\ LET e == Head(queue) IN
       /\ pulled' = Append(pulled, e)
       /\ units' = Dispatched(units, e)
       /\ pc' = AfterEvent(e)
  /\ queue' = Tail(queue)
  /\ UNCHANGED <<routes, regs, runtime, delivered, requests, drained, subscribed, handled>>

\* One iteration of the loop whose poll() returns the next inbound event
\* (or the connection error).
PollIncoming ==
  /\ pc = "polling"
  /\ queue # <<>>
  /\ LET e == Head(queue) IN
       /\ pulled' = Append(pulled, e)
       /\ units' = Dispatched(units, e)
       /\ pc' = AfterEvent(e)
  /\ queue' = Tail(queue)
  /\ UNCHANGED <<routes, regs, runtime, delivered, requests, drained, subscribed, handled>>

\* Mutant of PollOutgoing: the loop awaits handle_request instead of spawning
\* it, so it does not poll while a unit is in flight.
PollOutgoing_awaits ==
  /\ pc = "polling"
  /\ requests # <<>>
  /\ \A i \in 1..Len(units) : ~InFlight(units[i])
  /\ requests' = Tail(requests)
  /\ drained' = drained + 1
  /\ UNCHANGED <<routes, regs, pc, runtime, queue, delivered, pulled, units, subscribed, handled>>

\* One iteration of the loop whose poll() takes a request off the client's
\* channel and returns Event::Outgoing: not an incoming publish, so no dispatch.
PollOutgoing ==
  /\ pc = "polling"
  /\ requests # <<>>
  /\ requests' = Tail(requests)
  /\ drained' = drained + 1
  /\ UNCHANGED <<routes, regs, pc, runtime, queue, delivered, pulled, units, subscribed, handled>>

\* ------------------------------------------------------- dispatch units
\* Mutant of Reply: the reply goes to the topic the handler listens on.
Reply_sameTopic ==
  [op |-> "publish", topic |-> HelloWorld, qos |-> "AtLeastOnce",
   retain |-> FALSE, payload |-> "Hello back!"]

\* HelloHandler::call_async: the arguments of its one client.publish call.
Reply ==
  [op |-> "publish", topic |-> HelloBack, qos |-> "AtLeastOnce",
   retain |-> FALSE, payload |-> "Hello back!"]

\* The client.publish calls handler h makes when invoked with client c.
call_async(h, c) ==
  <<[op |-> Reply.op, topic |-> Reply.topic, qos |-> Reply.qos,
     retain |-> Reply.retain, payload |-> Reply.payload, session |-> c.session]>>

\* Mutant of handle_request: a dispatched route is taken out of the table
\* (a one-shot route), so dispatch writes the route table.
handle_request_once(i) ==
  /\ runtime = "running"
  /\ i \in 1..Len(units)
  /\ units[i].pc = "spawned"
  /\ LET h == Get(routes, units[i].topic) IN
       IF h # "None"
         THEN /\ units' = [units EXCEPT ![i].pc = "publishing", ![i].handler = h,
                                        ![i].published = call_async(h, units[i].client)]
              /\ routes' = SelectSeq(routes, LAMBDA e : e.key # units[i].topic)
         ELSE /\ units' = [units EXCEPT ![i].pc = "done", ![i].notice = TRUE]
              /\ routes' = routes
  /\ UNCHANGED <<regs, pc, runtime, queue, delivered, pulled, requests, drained, subscribed, handled>>

\* MqttRouter::handle_request, as run by unit i, up to the handler's await:
\* look the topic up; Some(handler) => handler.call_async(client), which
\* calls client.publish; None => print the notice and return.
handle_request(i) ==
  /\ runtime = "running"
  /\ i \in 1..Len(units)
  /\ units[i].pc = "spawned"
  /\ LET h == Get(routes, units[i].topic) IN
       IF h # "None"
         THEN units' = [units EXCEPT ![i].pc = "publishing", ![i].handler = h,
                                     ![i].published = call_async(h, units[i].client)]
         ELSE units' = [units EXCEPT ![i].pc = "done", ![i].notice = TRUE]
  /\ UNCHANGED <<routes, regs, pc, runtime, queue, delivered, pulled, requests, drained, subscribed, handled>>

\* client.publish(..).await returned Ok: the request is in the channel (the
\* send waits while the channel is full); call_async and the unit complete.
PublishOk(i) ==
  /\ runtime = "running"
  /\ i \in 1..Len(units)
  /\ units[i].pc = "publishing"
  /\ EventLoopAlive
  /\ Len(requests) < ReqCap
  /\ requests' = Append(requests, [op |-> "publish", topic |-> Reply.topic])
  /\ units' = [units EXCEPT ![i].pc = "done"]
  /\ UNCHANGED <<routes, regs, pc, runtime, queue, delivered, pulled, drained, subscribed, handled>>

\* Mutant of PublishErr: the panic of the unit takes main down with it.
PublishErr_aborts(i) ==
  /\ runtime = "running"
  /\ i \in 1..Len(units)
  /\ units[i].pc = "publishing"
  /\ units' = [units EXCEPT ![i].pc = "panicked"]
  /\ pc' = "panicked"
  /\ UNCHANGED <<routes, regs, runtime, queue, delivered, pulled, requests, drained, subscribed, handled>>

\* client.publish(..).await returned Err: the unwrap panics inside the
\* spawned task; tokio catches the panic and ends that task only.
PublishErr(i) ==
  /\ runtime = "running"
  /\ i \in 1..Len(units)
  /\ units[i].pc = "publishing"
  /\ units' = [units EXCEPT ![i].pc = "panicked"]
  /\ UNCHANGED <<routes, regs, pc, runtime, queue, delivered, pulled, requests, drained, subscribed, handled>>

\* Mutant of RuntimeShutdown: the spawned tasks are joined before the
\* runtime is dropped.
RuntimeShutdown_joins ==
  /\ pc \in {"terminated", "panicked"}
  /\ runtime = "running"
  /\ \A i \in 1..Len(units) : ~InFlight(units[i])
  /\ runtime' = "shutdown"
  /\ UNCHANGED <<routes, regs, pc, queue, delivered, pulled, units, requests, drained, subscribed, handled>>

\* main has returned (or panicked): #[tokio::main] drops the runtime, which
\* cancels every task that has not completed; nothing is joined.
RuntimeShutdown ==
  /\ pc \in {"terminated", "panicked"}
  /\ runtime = "running"
  /\ runtime' = "shutdown"
  /\ units' = [i \in 1..Len(units) |->
                 IF InFlight(units[i]) THEN [units[i] EXCEPT !.pc = "cancelled"] ELSE units[i]]
  /\ UNCHANGED <<routes, regs, pc, queue, delivered, pulled, requests, drained, subscribed, handled>>

\* ------------------------------------------------------ the program: main
Next ==
  \/ MainAddRoute
  \/ SubscribeOk
  \/ SubscribeErr
  \/ EnterLoop
  \/ \E e \in Events : Deliver(e)
  \/ PollIncoming
  \/ PollOutgoing
  \/ \E i \in 1..Len(units) : handle_request(i)
  \/ \E i \in 1..Len(units) : PublishOk(i)
  \/ \E i \in 1..Len(units) : PublishErr(i)
  \/ RuntimeShutdown

Spec == Init /\ [][Next]_vars

\* main with the loop task scheduled fairly: an iteration whose event is
\* available is eventually run.  Nothing is assumed of the dispatch units,
\* which may hang at any point.
SpecFair == Init /\ [][Next]_vars /\ WF_vars(PollIncoming)

\* ------------------------------------- the router driven by a test harness
\* A caller of the router's public API: any sequence of add_route calls and,
\* between them, direct handle_request calls.  add_route borrows the router
\* mutably, so no handle_request future is alive during it.
HarnessAddRoute(h) ==
  /\ Len(regs) < MaxRegs
  /\ \A i \in 1..Len(units) : ~InFlight(units[i])
  /\ AddRoute(h)

HarnessCall(t) ==
  /\ pc = "setup"
  /\ runtime = "running"
  /\ Len(units) < MaxCalls
  /\ units' = Spawn(units, [kind |-> "Publish", topic |-> t, payload |-> ""])
  /\ UNCHANGED <<routes, regs, pc, runtime, queue, delivered, pulled, requests, drained, subscribed, handled>>

NextRouter ==
  \/ \E h \in HandlerTypes : HarnessAddRoute(h)
  \/ SubscribeOk
  \/ SubscribeErr
  \/ \E t \in HarnessTopics : HarnessCall(t)
  \/ \E i \in 1..Len(units) : handle_request(i)
  \/ \E i \in 1..Len(units) : PublishOk(i)
  \/ \E i \in 1..Len(units) : PublishErr(i)
  \/ RuntimeShutdown

SpecRouter == Init /\ [][NextRouter]_vars

\* ------------------------------------ a setup phase with N registrations
\* main's shape with any number of registrations before the loop: N add_route
\* calls, each awaited, then the loop, whose poll() is the only thing that
\* takes requests off the channel.
SetupTypes == {"HelloHandler", "WildHandler"}

SetupAddRoute(h) ==
  /\ Len(regs) < MaxSetup
  /\ AddRoute(h)

SetupEnterLoop ==
  /\ pc = "setup"
  /\ pc' = "polling"
  /\ UNCHANGED <<routes, regs, runtime, queue, delivered, pulled, units, requests, drained, subscribed, handled>>

NextSetup ==
  \/ \E h \in SetupTypes : SetupAddRoute(h)
  \/ SubscribeOk
  \/ SubscribeErr
  \/ SetupEnterLoop
  \/ PollOutgoing
  \/ RuntimeShutdown

SpecSetup == Init /\ [][NextSetup]_vars

\* ------------------------------------------- a burst of inbound messages
\* The state main is in after its setup and n inbound "hello/world" messages,
\* all pulled and dispatched, every handler suspended in its publish, and the
\* subscribe request of the setup still on the channel.
BurstEvent == [kind |-> "Publish", topic |-> HelloWorld, payload |-> ""]

BurstState(n) ==
  [routes |-> <<[key |-> HelloWorld, value |-> "HelloHandler"]>>,
   regs |-> <<"HelloHandler">>,
   subscribed |-> <<subscribe("HelloHandler")>>,
   requests |-> <<[op |-> "subscribe", topic |-> HelloWorld]>>,
   delivered |-> [k \in 1..n |-> BurstEvent],
   units |-> [k \in 1..n |->
               [topic |-> HelloWorld, client |-> Clone(MainClient, k), pc |-> "publishing",
                handler |-> "HelloHandler", notice |-> FALSE,
                published |-> call_async("HelloHandler", Clone(MainClient, k))]]]

InitBurst ==
  /\ routes = BurstState(MaxBurst).routes
  /\ regs = BurstState(MaxBurst).regs
  /\ pc = "polling"
  /\ runtime = "running"
  /\ queue = <<>>
  /\ delivered = BurstState(MaxBurst).delivered
  /\ pulled = BurstState(MaxBurst).delivered
  /\ units = BurstState(MaxBurst).units
  /\ requests = BurstState(MaxBurst).requests
  /\ drained = 0
  /\ subscribed = BurstState(MaxBurst).subscribed
  /\ handled = <<>>

\* The connection stays up and accepts every publish: the units complete
\* only by getting their request onto the channel, the loop only drains it.
SomePublishOk == \E i \in 1..Len(units) : PublishOk(i)

NextBurst ==
  \/ SomePublishOk
  \/ PollOutgoing

\* The runtime schedules the loop task fairly, and does not leave the spawned
\* tasks unscheduled for ever while one of them can complete its send (which
\* fair scheduling of each task implies).
SpecBurst ==
  /\ InitBurst
  /\ [][NextBurst]_vars
  /\ WF_vars(PollOutgoing)
  /\ WF_vars(SomePublishOk)

\* --------------------------------------------- the free function handle
\* hello_handler: the client.publish calls it makes with client c.
hello_handler(c) ==
  <<[op |-> "publish", topic |-> HelloBack, qos |-> "AtLeastOnce",
     retain |-> FALSE, payload |-> "Hello back!", session |-> c.session]>>

\* Mutant of handle: the match is on the first level of the topic only.
handle_prefix(topic, c) ==
  IF Len(topic) >= 1 /\ topic[1] = "hello"
    THEN [published |-> hello_handler(c), result |-> "Ok"]
    ELSE [published |-> <<>>, result |-> "Err"]

\* handle(topic, client): the arm its match takes, as the publish calls the
\* arm makes and the value it returns.
handle(topic, c) ==
  IF topic = HelloWorld
    THEN [published |-> hello_handler(c), result |-> "Ok"]
    ELSE [published |-> <<>>, result |-> "Err"]

\* The topic strings of at most MaxLevels levels over these level names.
Levels == {"hello", "world", "back", "#"}

TopicStrings == UNION {[1..n -> Levels] : n \in 0..MaxLevels}

\* A caller gives the same topic, with clones of one client, to the router
\* main configures (MqttRouter::handle_request) and to handle.
CompareCall(t) ==
  /\ pc = "setup"
  /\ regs = <<"HelloHandler">>
  /\ units = <<>>
  /\ units' = Spawn(units, [kind |-> "Publish", topic |-> t, payload |-> ""])
  /\ handled' = Append(handled, [topic |-> t, client |-> Clone(MainClient, 1), pc |-> "called",
                                 published |-> <<>>, result |-> "None"])
  /\ UNCHANGED <<routes, regs, pc, runtime, queue, delivered, pulled, requests, drained, subscribed>>

\* handle up to its await: println, the match, and for "hello/world" the
\* publish call of hello_handler; the other arm returns Err(()) at once.
handle_run(j) ==
  /\ runtime = "running"
  /\ j \in 1..Len(handled)
  /\ handled[j].pc = "called"
  /\ LET r == handle(handled[j].topic, handled[j].client) IN
       IF r.published # <<>>
         THEN handled' = [handled EXCEPT ![j].pc = "publishing", ![j].published = r.published]
         ELSE handled' = [handled EXCEPT ![j].pc = "done", ![j].result = r.result]
  /\ UNCHANGED <<routes, regs, pc, runtime, queue, delivered, pulled, units, requests, drained, subscribed>>

\* hello_handler's publish returned Ok: hello_handler returns and handle
\* returns Ok(()).
HandlePublishOk(j) ==
  /\ runtime = "running"
  /\ j \in 1..Len(handled)
  /\ handled[j].pc = "publishing"
  /\ EventLoopAlive
  /\ Len(requests) < ReqCap
  /\ requests' = Append(requests, [op |-> "publish", topic |-> handled[j].published[1].topic])
  /\ handled' = [handled EXCEPT ![j].pc = "done",
                                ![j].result = handle(handled[j].topic, handled[j].client).result]
  /\ UNCHANGED <<routes, regs, pc, runtime, queue, delivered, pulled, units, drained, subscribed>>

\* hello_handler's publish returned Err: its unwrap panics and handle does
\* not return.
HandlePublishErr(j) ==
  /\ runtime = "running"
  /\ j \in 1..Len(handled)
  /\ handled[j].pc = "publishing"
  /\ handled' = [handled EXCEPT ![j].pc = "panicked"]
  /\ UNCHANGED <<routes, regs, pc, runtime, queue, delivered, pulled, units, requests, drained, subscribed>>

NextHandle ==
  \/ MainAddRoute
  \/ SubscribeOk
  \/ \E t \in TopicStrings : CompareCall(t)
  \/ \E i \in 1..Len(units) : handle_request(i)
  \/ \E i \in 1..Len(units) : PublishOk(i)
  \/ \E i \in 1..Len(units) : PublishErr(i)
  \/ \E j \in 1..Len(handled) : handle_run(j)
  \/ \E j \in 1..Len(handled) : HandlePublishOk(j)
  \/ \E j \in 1..Len(handled) : HandlePublishErr(j)

SpecHandle == Init /\ [][NextHandle]_vars

\* ======================================================= the claims
\* A unit whose handle_request has run its lookup.
Ran(u) == u.handler # "None" \/ u.notice

\* The step in which unit i runs handle_request's lookup.
Runs(i) == units[i].pc = "spawned" /\ units'[i].pc \notin {"spawned", "cancelled"}

\* The one publish call of HelloHandler::call_async, as the source writes it.
HelloBackCall ==
  [op |-> "publish", topic |-> <<"hello", "back">>, qos |-> "AtLeastOnce",
   retain |-> FALSE, payload |-> "Hello back!", session |-> "mqtt-async-connector"]

\* C1 -- Dispatch correctness: whatever the route table and the topic t,
\* handle_request(client, t) invokes the handler stored under the key equal
\* to t, once, when there is such a key; otherwise it invokes no handler,
\* only prints the notice and completes without error.  Keys are compared by
\* string equality: a wildcard or prefix key does not match.
C1_DispatchCorrectness ==
  /\ [][\A i \in 1..Len(units) :
          Runs(i) =>
            IF \E j \in 1..Len(routes) : routes[j].key = units[i].topic
              THEN /\ \E j \in 1..Len(routes) :
                        /\ routes[j].key = units[i].topic
                        /\ units'[i].handler = routes[j].value
                   /\ Len(units'[i].published) = 1
                   /\ ~units'[i].notice
                   /\ units'[i].pc = "publishing"
              ELSE /\ units'[i].handler = "None"
                   /\ units'[i].published = <<>>
                   /\ units'[i].notice
                   /\ units'[i].pc = "done"]_vars
  /\ [][\A i \in 1..Len(units) :
          Ran(units[i]) => /\ units'[i].handler = units[i].handler
                           /\ units'[i].published = units[i].published
                           /\ units'[i].notice = units[i].notice]_vars

\* C1 witness: with only the wildcard route "hello/#" and the prefix route
\* "hello" registered, a "hello/world" request found no handler; after
\* HelloHandler was added, a second "hello/world" request invoked it.
C1_Witness ==
  /\ Len(units) = 2
  /\ regs = <<"WildHandler", "RootHandler", "HelloHandler">>
  /\ units[1].topic = HelloWorld /\ units[1].notice /\ units[1].pc = "done"
  /\ units[2].topic = HelloWorld /\ units[2].handler = "HelloHandler" /\ units[2].pc = "done"

DistinctPaths(s) == \A i, j \in 1..Len(s) : i # j => path(s[i]) # path(s[j])

\* C5 -- Registration determinism: after N add_route calls whose handlers
\* have pairwise distinct topics the route table holds exactly N entries,
\* the i-th mapping the i-th registered topic to the i-th registered handler.
C5_RegistrationDeterminism ==
  DistinctPaths(regs) =>
    /\ Len(routes) = Len(regs)
    /\ \A i \in 1..Len(regs) :
         routes[i] = [key |-> path(regs[i]), value |-> regs[i]]

\* C5 witness: three registrations with distinct topics have returned.
C5_Witness ==
  /\ pc = "setup"
  /\ regs = <<"WildHandler", "HelloHandler", "RootHandler">>
  /\ Len(routes) = 3

\* The handler most recently passed to add_route for topic t, or None.
LastRegistered(s, t) ==
  IF \E i \in 1..Len(s) : path(s[i]) = t
    THEN s[CHOOSE i \in 1..Len(s) :
             /\ path(s[i]) = t
             /\ \A j \in (i + 1)..Len(s) : path(s[j]) # t]
    ELSE "None"

\* C6 -- Overwrite: add_route for a topic already present replaces the
\* handler and leaves the number of entries unchanged; a topic never maps to
\* two handlers; a later handle_request for the topic invokes the handler
\* registered last, never the replaced one.
C6_Overwrite ==
  /\ [](\A i, j \in 1..Len(routes) : routes[i].key = routes[j].key => i = j)
  /\ [][(regs' # regs /\ HasKey(routes, path(regs'[Len(regs')]))) =>
          /\ Len(routes') = Len(routes)
          /\ \E j \in 1..Len(routes') :
               routes'[j] = [key |-> path(regs'[Len(regs')]), value |-> regs'[Len(regs')]]]_vars
  /\ [][\A i \in 1..Len(units) :
          Runs(i) => units'[i].handler = LastRegistered(regs, units[i].topic)]_vars

\* C6 witness: HelloHandler2 replaced HelloHandler at "hello/world", the
\* table still has one entry, and a later request invoked HelloHandler2.
C6_Witness ==
  /\ regs = <<"HelloHandler", "HelloHandler2">>
  /\ Len(routes) = 1
  /\ Len(units) = 2
  /\ units[1].handler = "HelloHandler"
  /\ units[2].handler = "HelloHandler2" /\ units[2].pc = "done"

\* C2 -- Non-blocking: the loop never waits for a dispatch unit.  Whenever
\* the loop is polling and an event is available, its next iteration can
\* take the event, whatever the state of the units spawned so far (the
\* witness is the state the claim names: unit 2 done, unit 1 in flight).
C2_NonBlocking ==
  (pc = "polling" /\ queue # <<>>) => ENABLED PollIncoming

\* C2 witness: the second unit has completed its publish while the first,
\* spawned earlier, is still suspended in its own, and an event is waiting.
C2_Witness ==
  /\ pc = "polling"
  /\ Len(units) >= 2
  /\ units[1].pc = "publishing"
  /\ units[2].pc = "done" /\ units[2].handler = "HelloHandler"
  /\ queue # <<>>

\* C3 -- Fatal on connection error: the iteration whose poll() returns the
\* error moves the loop from Polling to Terminated, and from Terminated on
\* main stays there, pulls no event (the queued ones stay queued), takes no
\* request off the channel and spawns no unit.
C3_FatalOnConnectionError ==
  /\ [][(pc = "polling" /\ pulled' # pulled /\ Head(queue).kind = "Error")
          => pc' = "terminated"]_vars
  /\ [][pc = "terminated" =>
          /\ pc' = "terminated"
          /\ pulled' = pulled
          /\ queue' = queue
          /\ drained' = drained
          /\ Len(units') = Len(units)]_vars

\* C3 witness: the loop has terminated on the error while an inbound publish
\* delivered behind it is still queued, unpolled and without a unit.
C3_Witness ==
  /\ pc = "terminated"
  /\ pulled # <<>> /\ pulled[Len(pulled)].kind = "Error"
  /\ queue # <<>> /\ Head(queue).kind = "Publish"
  /\ units = <<>>

\* C4 -- Isolation: the step in which a unit's publish fails (its unwrap
\* panics) changes that unit only: main stays where it is, the runtime keeps
\* running, every other unit, the route table, the event queue and the
\* request channel are untouched.
C4_Isolation ==
  [][\A i \in 1..Len(units) :
       (units[i].pc = "publishing" /\ units'[i].pc = "panicked") =>
         /\ pc' = pc
         /\ runtime' = runtime
         /\ Len(units') = Len(units)
         /\ \A j \in 1..Len(units) : j # i => units'[j] = units[j]
         /\ routes' = routes
         /\ queue' = queue
         /\ requests' = requests]_vars

\* C4 witness: the first unit panicked on its publish; the loop is still
\* polling and a message pulled afterwards was dispatched and its handler's
\* publish succeeded.
C4_Witness ==
  /\ pc = "polling"
  /\ Len(units) >= 2
  /\ units[1].pc = "panicked"
  /\ units[2].pc = "done" /\ units[2].handler = "HelloHandler"
  /\ Len(units[2].published) = 1

IsPublish(e) == e.kind = "Publish"

\* The inbound publish messages pulled so far, in the order they were pulled.
Inbound == SelectSeq(pulled, IsPublish)

\* C7 -- Echo scenario (HelloHandler registered at "hello/world", as main
\* does): the unit of every inbound "hello/world" message, whatever its
\* payload, makes exactly one publish call once it has run, and that call is
\* publish("hello/back", AtLeastOnce, false, "Hello back!"); the unit of an
\* inbound message on any other topic makes no publish call.
C7_EchoScenario ==
  /\ Len(units) = Len(Inbound)
  /\ \A k \in 1..Len(Inbound) :
       /\ (Inbound[k].topic = <<"hello", "world">> /\ Ran(units[k]))
            => units[k].published = <<HelloBackCall>>
       /\ (Inbound[k].topic = <<"hello", "world">> /\ ~Ran(units[k]))
            => units[k].published = <<>>
       /\ Inbound[k].topic # <<"hello", "world">> => units[k].published = <<>>

\* C7 witness: two "hello/world" messages with different payloads were each
\* answered by one publish, and a message on another topic by none.
C7_Witness ==
  /\ Len(Inbound) = 3
  /\ Inbound[1] = [kind |-> "Publish", topic |-> HelloWorld, payload |-> "ping"]
  /\ Inbound[2] = [kind |-> "Publish", topic |-> UnknownTopic, payload |-> "ping"]
  /\ Inbound[3] = [kind |-> "Publish", topic |-> HelloWorld, payload |-> ""]
  /\ \A k \in 1..3 : units[k].pc = "done"
  /\ Len(units[1].published) = 1 /\ Len(units[3].published) = 1
  /\ units[2].published = <<>>

\* The poll loop has started.
LoopStarted == pc \in {"polling", "terminated"}

\* C8 -- The route table is frozen during Polling: every add_route call is
\* made before the loop starts; once it has started no step (of the loop, of
\* handle_request, of a handler) changes the route table; and no dispatch
\* unit exists while a registration is in progress.
C8_RouteTableFrozen ==
  /\ [][LoopStarted => (routes' = routes /\ regs' = regs /\ subscribed' = subscribed)]_vars
  /\ []((pulled # <<>> \/ drained > 0 \/ units # <<>>) => LoopStarted)
  /\ [](pc \in {"setup", "subscribing"} => units = <<>>)

\* C8 witness: the loop is polling, two units interleave (one has dispatched
\* and is suspended, one completed) and the table is as setup left it.
C8_Witness ==
  /\ pc = "polling"
  /\ Len(units) >= 2
  /\ units[1].pc = "publishing"
  /\ units[2].pc = "done" /\ units[2].handler = "HelloHandler"
  /\ routes = <<[key |-> HelloWorld, value |-> "HelloHandler"]>>

\* main has stopped: it returned, panicked, or the runtime is gone.
Stopped == pc \in {"terminated", "panicked"} \/ runtime = "shutdown"

\* C9 -- Only ConnectionFailure terminates the system: whenever the process
\* has stopped, it stopped because eventloop.poll() returned an error; no
\* subscribe failure, publish failure or unrouted topic stops it.
C9_OnlyConnectionFailureTerminates ==
  Stopped => (pc = "terminated" /\ pulled # <<>> /\ pulled[Len(pulled)].kind = "Error")

\* C10 -- One dispatch unit per inbound message, in delivery order: the
\* units spawned so far are exactly as many as the inbound publishes pulled
\* so far, the k-th unit carries the k-th message's topic and a clone of
\* main's client (a distinct handle on the same session), and poll() returns
\* the events in the order the connection delivered them.
C10_OneUnitPerMessage ==
  /\ Len(units) = Len(Inbound)
  /\ \A k \in 1..Len(units) :
       /\ units[k].topic = Inbound[k].topic
       /\ units[k].client.session = MainClient.session
       /\ units[k].client.handle = k
  /\ pulled \o queue = delivered

\* C10 witness: three events were pulled, an acknowledgement between two
\* publishes on different topics, and two units exist, in that order.
C10_Witness ==
  /\ pc = "polling"
  /\ Len(pulled) = 3
  /\ pulled[1].kind = "Publish" /\ pulled[1].topic = UnknownTopic
  /\ pulled[2].kind = "Other"
  /\ pulled[3].kind = "Publish" /\ pulled[3].topic = HelloWorld
  /\ Len(units) = 2
  /\ units[1].topic = UnknownTopic /\ units[2].topic = HelloWorld

\* The step is a loop iteration whose poll() returned Ok with an event that
\* is not an incoming publish: an inbound acknowledgement or notice, or an
\* outgoing event for a request taken off the channel.
PullsNonMessage ==
  \/ pulled' # pulled /\ Head(queue).kind = "Other"
  \/ drained' # drained

\* C11 -- Non-message events are ignored: a loop iteration whose event is Ok
\* but not an incoming publish spawns no unit and changes none (so no handler
\* is invoked and no publish is called), calls no subscribe, puts no request
\* on the channel, leaves the route table unchanged and stays in Polling.
C11_NonMessageIgnored ==
  [][PullsNonMessage =>
       /\ units' = units
       /\ routes' = routes
       /\ regs' = regs
       /\ subscribed' = subscribed
       /\ Len(requests') <= Len(requests)
       /\ pc = "polling" /\ pc' = "polling"]_vars

\* C11 witness: an inbound acknowledgement and an outgoing event were both
\* polled while a unit was in flight; that unit is the only one, still in
\* flight, and the loop is polling.
C11_Witness ==
  /\ pc = "polling"
  /\ Len(pulled) = 2
  /\ pulled[1].kind = "Publish" /\ pulled[2].kind = "Other"
  /\ drained = 1
  /\ Len(units) = 1 /\ units[1].pc = "publishing"

\* C12 -- Setup always completes: whatever the number of registrations, a
\* registration that is waiting for its subscribe to be put on the request
\* channel can always proceed when the broker accepts it, so no add_route
\* blocks forever on the channel, which nothing drains before the loop runs.
C12_SetupCompletes ==
  pc = "subscribing" => ENABLED SubscribeOk

\* C14 -- Every registration subscribes once, after the insert: the
\* subscribe calls are, one for one and in order, the add_route calls, each
\* for the path of its handler (also when the route was overwritten), each
\* for a path that is in the route table when the call is made and when its
\* request is on the channel; when no subscribe failed every call's request
\* went onto the channel, and at the start of Polling the subscribed topics
\* are exactly the keys of the route table.
C14_SubscribeOncePerRegistration ==
  /\ Len(subscribed) = Len(regs)
  /\ \A i \in 1..Len(subscribed) :
       /\ subscribed[i] = [op |-> "subscribe", topic |-> path(regs[i]), qos |-> "AtMostOnce"]
       /\ HasKey(routes, subscribed[i].topic)
  /\ \A i \in 1..Len(requests) :
       requests[i].op = "subscribe" => HasKey(routes, requests[i].topic)
  /\ pc \in {"setup", "polling"} => Len(requests) + drained = Len(regs)
  /\ pc = "polling" =>
       {subscribed[i].topic : i \in 1..Len(subscribed)} = {routes[j].key : j \in 1..Len(routes)}

\* C14 witness: three registrations, the third overwriting the first; three
\* subscribes were issued for two routes, and the loop has started.
C14_Witness ==
  /\ pc = "polling"
  /\ regs = <<"HelloHandler", "WildHandler", "HelloHandler">>
  /\ Len(subscribed) = 3
  /\ Len(routes) = 2
  /\ drained = 0

\* The number of inbound publishes among the first k delivered events.
NPub(k) == Len(SelectSeq(SubSeq(delivered, 1, k), IsPublish))

\* C13 -- A hung handler never stalls the loop: with the loop task scheduled
\* fairly and nothing assumed of the units (any of them may never take
\* another step), every event the connection delivers is eventually pulled,
\* and a unit spawned for every inbound message among them, for as long as
\* no connection error has ended the loop; and while the loop is polling no
\* unit in flight is ever cancelled.
C13_HungHandlerNeverStalls ==
  /\ \A k \in 1..MaxEvents :
       (Len(delivered) >= k)
         ~> (pc # "polling" \/ (Len(pulled) >= k /\ Len(units) >= NPub(k)))
  /\ [][\A i \in 1..Len(units) :
          (InFlight(units[i]) /\ pc' = "polling") => units'[i].pc # "cancelled"]_vars

\* C13 witness: the first unit has never run, and behind it two more events
\* were pulled and the unit of a later message ran to completion.
C13_Witness ==
  /\ pc = "polling"
  /\ Len(pulled) = 3
  /\ Len(units) >= 2
  /\ units[1].pc = "spawned"
  /\ units[Len(units)].pc = "done" /\ units[Len(units)].handler = "HelloHandler"

\* Unit i has finished: its handler's publish was accepted or failed.
Finished(i) == units[i].pc \in {"done", "panicked"}

\* C15 -- Handlers do not block indefinitely: with the loop polling and the
\* tasks scheduled fairly, every unit suspended in the publish of
\* HelloHandler::call_async eventually finishes, also when more units are
\* publishing at once than the request channel has room for: a finished
\* unit stays finished, and eventually all of them are.
C15_HandlersFinish ==
  /\ <>(\A i \in 1..Len(units) : Finished(i))
  /\ [][\A i \in 1..Len(units) : Finished(i) => units'[i] = units[i]]_vars
  /\ [](pc = "polling" /\ Len(units) > ReqCap)

\* C15 witness: more units than the channel's capacity were publishing at
\* once; all have finished, the last ones into room the loop made, and the
\* channel is full again.
C15_Witness ==
  /\ pc = "polling"
  /\ Len(units) > ReqCap
  /\ \A i \in 1..Len(units) : units[i].pc = "done"
  /\ Len(requests) = ReqCap
  /\ drained = Len(units) + 1 - ReqCap

\* The number of dispatch units in flight.
NInFlight == Cardinality({i \in 1..Len(units) : InFlight(units[i])})

\* C16 -- Unbounded concurrency: the loop enforces no cap on the units in
\* flight.  Whatever their number, an available inbound message can be
\* pulled at once, and the iteration that pulls it spawns its unit in that
\* same step and leaves the units in flight as they are; nothing is refused,
\* queued or delayed.  (The witness has as many units in flight as messages
\* were delivered.)
C16_UnboundedConcurrency ==
  /\ [](\A k \in 0..MaxEvents :
          (NInFlight = k /\ pc = "polling" /\ queue # <<>>) => ENABLED PollIncoming)
  /\ [][(pulled' # pulled /\ Head(queue).kind = "Publish") =>
          /\ Len(units') = Len(units) + 1
          /\ units'[Len(units')].pc = "spawned"
          /\ units'[Len(units')].topic = Head(queue).topic
          /\ \A i \in 1..Len(units) : units'[i] = units[i]]_vars

\* C16 witness: every delivered event was an inbound message, and the units
\* of all of them are in flight at once, none completed.
C16_Witness ==
  /\ pc = "polling"
  /\ Len(delivered) = MaxEvents
  /\ Len(units) = MaxEvents
  /\ NInFlight = MaxEvents
  /\ \E i \in 1..Len(units) : units[i].pc = "publishing"

\* C17 -- Termination does not wait for outstanding work: the iteration
\* that polls the connection error returns from main without touching any
\* unit; once main has returned the runtime can shut down at once, whatever
\* is in flight; after the shutdown nothing is in flight, and a unit that was
\* dropped before its lookup ran has invoked no handler and published
\* nothing, while the publish of a unit dropped in its handler never got
\* onto the channel.
C17_TerminationDoesNotWait ==
  /\ [][(pc = "polling" /\ pc' = "terminated") => units' = units]_vars
  /\ []((pc = "terminated" /\ runtime = "running") => ENABLED RuntimeShutdown)
  /\ [](runtime = "shutdown" => \A i \in 1..Len(units) : ~InFlight(units[i]))
  /\ [](\A i \in 1..Len(units) :
          (units[i].pc = "cancelled" /\ ~Ran(units[i])) =>
            (units[i].handler = "None" /\ units[i].published = <<>>))
  /\ [](Len(SelectSeq(requests, LAMBDA r : r.op = "publish")) + drained
          <= 1 + Cardinality({i \in 1..Len(units) : units[i].pc = "done" /\ units[i].handler # "None"}))

\* C17 witness: main returned on the connection error with two units in
\* flight and the process has exited: the first "hello/world" message never
\* had its handler run, the second had its publish called but never
\* accepted, and no reply is on the channel.
C17_Witness ==
  /\ pc = "terminated"
  /\ runtime = "shutdown"
  /\ pulled[Len(pulled)].kind = "Error"
  /\ Len(units) = 2
  /\ units[1].topic = HelloWorld /\ units[1].pc = "cancelled" /\ ~Ran(units[1])
  /\ units[2].topic = HelloWorld /\ units[2].pc = "cancelled" /\ units[2].handler = "HelloHandler"
  /\ \A i \in 1..Len(requests) : requests[i].op # "publish"

\* C18 -- handle agrees with the router as main configures it: given the
\* same topic, handle, once past its match, and handle_request, once past
\* its lookup, have made the same publish calls: the one call
\* publish("hello/back", AtLeastOnce, false, "Hello back!") when the topic is
\* exactly "hello/world", none otherwise; and when handle returns, it returns
\* Ok(()) if the topic is "hello/world" and Err(()) if it is not.
C18_HandleAgreesWithRouter ==
  /\ Len(handled) = Len(units)
  /\ \A k \in 1..Len(handled) :
       /\ handled[k].topic = units[k].topic
       /\ (handled[k].pc # "called" /\ Ran(units[k]))
            => handled[k].published = units[k].published
       /\ handled[k].pc # "called" =>
            handled[k].published =
              IF handled[k].topic = <<"hello", "world">> THEN <<HelloBackCall>> ELSE <<>>
       /\ handled[k].pc = "done" =>
            handled[k].result = IF handled[k].topic = <<"hello", "world">> THEN "Ok" ELSE "Err"
       /\ handled[k].pc # "done" => handled[k].result = "None"

\* C18 witness: on the three-level topic "hello/world/back", which has
\* "hello/world" as a prefix, handle returned Err(()) and the router found no
\* route; neither published.
C18_Witness ==
  /\ Len(handled) = 1
  /\ handled[1].topic = <<"hello", "world", "back">>
  /\ handled[1].pc = "done" /\ handled[1].result = "Err"
  /\ units[1].pc = "done" /\ units[1].notice
  /\ requests = <<[op |-> "subscribe", topic |-> HelloWorld]>>

====
